---------------------------- MODULE Spec2Model ----------------------------
(***************************************************************************)
(* A model of the MFLI live monitor (src/amp.py): the MFLILiveGUI widget,  *)
(* its handlers connect_to_server, refresh_devices, start_live, stop_live, *)
(* poll_and_update and closeEvent, and the calls they make on the          *)
(* acquisition collaborator (zhinst.toolkit Session).                      *)
(*                                                                         *)
(* Python strings are sequences of one-character strings, so that strip(), *)
(* lower(), startswith(), the substring test `in`, int() and float() are   *)
(* computed as the interpreter computes them.  Optional[T] is <<>> for     *)
(* None and <<v>> for a value v.  A float is the exact decimal m * 10^e    *)
(* with m not divisible by 10 (rounding and overflow of binary floats are  *)
(* outside the model).                                                     *)
(*                                                                         *)
(* The GUI is single-threaded: every handler runs to completion on the Qt  *)
(* event loop, so each handler is one action.  A modal QMessageBox spins a *)
(* nested event loop in which a timer tick could run, but wherever a       *)
(* dialog is shown with the timer active the handler has no assignment     *)
(* left to make, so such a tick is the same as a tick after the handler.   *)
(***************************************************************************)
EXTENDS Integers, Sequences, FiniteSets, TLC

---------------------------------------------------------------------------
(* Optional values *)

None == <<>>

Some(v) == <<v>>

IsSet(o) == o # <<>>

Val(o) == o[1]

---------------------------------------------------------------------------
(* Python str operations *)

UpperChars ==
  <<"A","B","C","D","E","F","G","H","I","J","K","L","M",
    "N","O","P","Q","R","S","T","U","V","W","X","Y","Z">>

LowerChars ==
  <<"a","b","c","d","e","f","g","h","i","j","k","l","m",
    "n","o","p","q","r","s","t","u","v","w","x","y","z">>

DigitChars == <<"0","1","2","3","4","5","6","7","8","9">>

SpaceChars == {" ", "\t", "\n", "\r"}

LowerChar(c) ==
  IF \E i \in DOMAIN UpperChars : UpperChars[i] = c
    THEN LowerChars[CHOOSE i \in DOMAIN UpperChars : UpperChars[i] = c]
    ELSE c

\* str.lower()
Lower(s) == [i \in DOMAIN s |-> LowerChar(s[i])]

\* sub in s
Contains(sub, s) ==
  \E i \in 0..(Len(s) - Len(sub)) : SubSeq(s, i + 1, i + Len(sub)) = sub

\* s.startswith(p)
StartsWith(s, p) == Len(s) >= Len(p) /\ SubSeq(s, 1, Len(p)) = p

RECURSIVE LStrip(_)
LStrip(s) ==
  IF s # <<>> /\ Head(s) \in SpaceChars THEN LStrip(Tail(s)) ELSE s

RECURSIVE RStrip(_)
RStrip(s) ==
  IF s # <<>> /\ s[Len(s)] \in SpaceChars
    THEN RStrip(SubSeq(s, 1, Len(s) - 1))
    ELSE s

\* str.strip()
Strip(s) == RStrip(LStrip(s))

IsDigit(c) == \E i \in DOMAIN DigitChars : DigitChars[i] = c

DigitVal(c) == (CHOOSE i \in DOMAIN DigitChars : DigitChars[i] = c) - 1

\* A digit group of a Python numeric literal: digits, with single
\* underscores allowed between digits only.
IsDigitGroup(s) ==
  /\ s # <<>>
  /\ \A i \in DOMAIN s : IsDigit(s[i]) \/ s[i] = "_"
  /\ IsDigit(s[1]) /\ IsDigit(s[Len(s)])
  /\ \A i \in 1..(Len(s) - 1) : ~(s[i] = "_" /\ s[i + 1] = "_")

RECURSIVE GroupVal(_, _)
GroupVal(s, acc) ==
  IF s = <<>> THEN acc
  ELSE IF Head(s) = "_" THEN GroupVal(Tail(s), acc)
  ELSE GroupVal(Tail(s), 10 * acc + DigitVal(Head(s)))

NumDigits(s) == Cardinality({i \in DOMAIN s : IsDigit(s[i])})

HasSign(s) == s # <<>> /\ Head(s) \in {"+", "-"}

Unsigned(s) == IF HasSign(s) THEN Tail(s) ELSE s

\* int(text) succeeds (base 10): surrounding whitespace, an optional sign,
\* one digit group.
IntParses(text) == IsDigitGroup(Unsigned(Strip(text)))

---------------------------------------------------------------------------
(* Python float(text) *)

RECURSIVE Normalize(_, _)
Normalize(m, e) ==
  IF m = 0 THEN [kind |-> "finite", m |-> 0, e |-> 0]
  ELSE IF m % 10 = 0 THEN Normalize(m \div 10, e + 1)
  ELSE [kind |-> "finite", m |-> m, e |-> e]

Float(m, e) == Normalize(m, e)

NaN == [kind |-> "nan", m |-> 0, e |-> 0]

Inf(sign) == [kind |-> "inf", m |-> sign, e |-> 0]

ParseError == [kind |-> "ValueError", m |-> 0, e |-> 0]

\* index of the first character of s that is in set cs, or 0
FirstIn(s, cs) ==
  IF \E i \in DOMAIN s : s[i] \in cs
    THEN CHOOSE i \in DOMAIN s :
           s[i] \in cs /\ \A j \in 1..(i - 1) : s[j] \notin cs
    ELSE 0

\* The decimal form  [digits][.[digits]][(e|E)[sign]digits]  with at least
\* one digit in the mantissa.
ParseDecimal(body, sign) ==
  LET ePos  == FirstIn(body, {"e", "E"})
      mant  == IF ePos = 0 THEN body ELSE SubSeq(body, 1, ePos - 1)
      expo  == IF ePos = 0 THEN <<>> ELSE SubSeq(body, ePos + 1, Len(body))
      dot   == FirstIn(mant, {"."})
      intp  == IF dot = 0 THEN mant ELSE SubSeq(mant, 1, dot - 1)
      frac  == IF dot = 0 THEN <<>> ELSE SubSeq(mant, dot + 1, Len(mant))
      expOk == ePos = 0 \/ IsDigitGroup(Unsigned(expo))
      manOk == /\ intp = <<>> \/ IsDigitGroup(intp)
               /\ frac = <<>> \/ IsDigitGroup(frac)
               /\ intp # <<>> \/ frac # <<>>
      expV  == IF ePos = 0 THEN 0
               ELSE (IF HasSign(expo) /\ Head(expo) = "-" THEN -1 ELSE 1)
                      * GroupVal(Unsigned(expo), 0)
  IN IF manOk /\ expOk
       THEN Float(sign * GroupVal(frac, GroupVal(intp, 0)),
                  expV - NumDigits(frac))
       ELSE ParseError

\* float(text): the parsed value, or ParseError where Python raises
\* ValueError.
ParseFloat(text) ==
  LET s    == Strip(text)
      sign == IF HasSign(s) /\ Head(s) = "-" THEN -1 ELSE 1
      body == Unsigned(s)
      low  == Lower(body)
  IN IF low = <<"n","a","n">> THEN NaN
     ELSE IF low \in {<<"i","n","f">>, <<"i","n","f","i","n","i","t","y">>}
       THEN Inf(sign)
     ELSE ParseDecimal(body, sign)

---------------------------------------------------------------------------
(* looks_like_in_use_error *)

NeedleInUse == <<"i","n"," ","u","s","e">>

NeedleAlreadyConnected ==
  <<"a","l","r","e","a","d","y"," ","c","o","n","n","e","c","t","e","d">>

Needle32789 == <<"3","2","7","8","9">>

NeedleDifferentServer ==
  <<"d","i","f","f","e","r","e","n","t"," ","s","e","r","v","e","r">>

\* looks_like_in_use_error without the lower()
looks_like_in_use_error_case_sensitive(msg) ==
  \/ Contains(NeedleInUse, msg)
  \/ Contains(NeedleAlreadyConnected, msg)
  \/ Contains(Needle32789, msg)
  \/ Contains(NeedleDifferentServer, msg)

looks_like_in_use_error(msg) ==
  LET m == Lower(msg)
  IN \/ Contains(NeedleInUse, m)
     \/ Contains(NeedleAlreadyConnected, m)
     \/ Contains(Needle32789, m)
     \/ Contains(NeedleDifferentServer, m)

---------------------------------------------------------------------------
(* Inputs: what the user has typed or selected and what the collaborator   *)
(* answers.  The text of an edit field is whatever the user has typed by   *)
(* the time a handler reads it, so it is an input of that handler.         *)

\* number of device ids the data server can make visible
MaxDevices == 2

AllDevices == << <<"d","e","v","1">>, <<"d","e","v","2">>, <<"d","e","v","3">>,
                 <<"d","e","v","4">> >>

\* results of session.devices.visible(): from no device to MaxDevices
VisibleLists == {SubSeq(AllDevices, 1, n) : n \in 0..MaxDevices}

Placeholder == <<"(","n","o","n","e"," ","f","o","u","n","d",")">>

\* port_edit texts: the default, one with whitespace, sign and underscore,
\* and two that int() rejects
PortTexts ==
  { <<"8","0","0","4">>, <<" ","+","8","_","0","0","4"," ">>,
    <<"8","0","0","4",".","0">>, <<>> }

\* freq_edit, tc_edit, rate_edit texts: the defaults of the widgets, a
\* well-formed text and a malformed one for each field
FreqTexts == { <<"1","0","0","0">>, <<" ","2",".","5","e","3"," ">>, <<"1","k">> }

TcTexts == { <<"0",".","0","1">>, <<".","5">>, <<>> }

RateTexts == { <<"2","0","0">>, <<"1","_","0","0">>, <<"1",",","5">> }

\* messages of the exception connect_device raises
ConnectMessages ==
  { <<"D","e","v","i","c","e"," ","I","n"," ","U","s","e">>,
    <<"A","L","R","E","A","D","Y"," ","C","O","N","N","E","C","T","E","D">>,
    <<"Z","I","E","r","r","o","r"," ","3","2","7","8","9">>,
    <<"o","n"," ","a"," ","D","i","f","f","e","r","e","n","t"," ","S","e","r","v","e","r">>,
    <<"t","i","m","e","o","u","t">>,
    <<"i","n","u","s","e">>,
    <<>> }

\* sample-read methods of session.daq_server, in the order they are probed
ReadMethods == <<"getSample", "getAsEvent", "get">>

\* the installed collaborator version, as the read methods it has: one
\* version for each method that can be the first one found, and one with
\* no read method at all
ApiVersions ==
  {{ReadMethods[j] : j \in i..Len(ReadMethods)} : i \in 1..(Len(ReadMethods) + 1)}

\* every Session object is a new object: an id no live reference uses
SessionIds == {1, 2}

\* The conversions of the input texts, evaluated once per text.
PortParses == [t \in PortTexts |-> IntParses(t)]

FloatOf == [t \in FreqTexts \cup TcTexts \cup RateTexts |-> ParseFloat(t)]

InUse == [m \in ConnectMessages |-> looks_like_in_use_error(m)]

StrippedText ==
  [t \in {AllDevices[i] : i \in DOMAIN AllDevices} \cup {Placeholder, <<>>}
     |-> Strip(t)]

---------------------------------------------------------------------------
(* State *)

VARIABLES
  session,        \* self.session: Optional[Session]
  device_id,      \* self.device_id: Optional[str]
  streaming,      \* self.streaming
  timer_active,   \* self.timer.isActive()
  start_enabled,  \* self.start_btn.isEnabled()
  stop_enabled,   \* self.stop_btn.isEnabled()
  status,         \* self.status_lbl text, without the "Status: " prefix
  labels,         \* x_lbl, y_lbl, r_lbl, phi_lbl: None is the "—" placeholder
  combo_items,    \* items of self.device_combo
  combo_index,    \* its current index, 1-based; 0 is Qt's -1 (no item)
  window,         \* "open", or "closed" once closeEvent was accepted
  api,            \* read methods the installed collaborator has
  ops             \* the calls made by the last handler, in order

vars == <<session, device_id, streaming, timer_active, start_enabled,
          stop_enabled, status, labels, combo_items, combo_index, window,
          api, ops>>

\* the widget as one value, for the handlers below
Self ==
  [session |-> session, device_id |-> device_id, streaming |-> streaming,
   timer_active |-> timer_active, start_enabled |-> start_enabled,
   stop_enabled |-> stop_enabled, status |-> status, labels |-> labels,
   combo_items |-> combo_items, combo_index |-> combo_index,
   window |-> window, ops |-> <<>>]

Becomes(g) ==
  \E n \in {g} :
    /\ session' = n.session
    /\ device_id' = n.device_id
    /\ streaming' = n.streaming
    /\ timer_active' = n.timer_active
    /\ start_enabled' = n.start_enabled
    /\ stop_enabled' = n.stop_enabled
    /\ status' = n.status
    /\ labels' = n.labels
    /\ combo_items' = n.combo_items
    /\ combo_index' = n.combo_index
    /\ window' = n.window
    /\ ops' = n.ops
    /\ api' = api

Status(text, n, dev) == [text |-> text, n |-> n, dev |-> dev]

UnsetLabels == [x |-> None, y |-> None, r |-> None, phi |-> None]

\* one call: op on session sess, for device dev, with value val; res is
\* "ok", "raise" or "AttributeError", msg the exception's message
Ev(op, sess, dev, val, res, msg) ==
  [op |-> op, sess |-> sess, dev |-> dev, val |-> val, res |-> res, msg |-> msg]

Call(name) == Ev(name, None, <<>>, None, "ok", <<>>)

Log(g, ev) == [g EXCEPT !.ops = Append(@, ev)]

set_status(g, st) ==
  Log([g EXCEPT !.status = st], Ev("set_status", None, <<>>, None, st.text, <<>>))

show_error(g, title) == Log(g, Ev("show_error", None, <<>>, None, title, <<>>))

\* self.device_combo.currentText()
currentText(g) ==
  IF g.combo_index = 0 THEN <<>> ELSE g.combo_items[g.combo_index]

Init ==
  /\ session = None
  /\ device_id = None
  /\ streaming = FALSE
  /\ timer_active = FALSE
  /\ start_enabled = TRUE
  /\ stop_enabled = FALSE
  /\ status = Status("Disconnected", 0, <<>>)
  /\ labels = UnsetLabels
  /\ combo_items = <<>>
  /\ combo_index = 0
  /\ window = "open"
  /\ api \in ApiVersions
  /\ ops = <<>>

---------------------------------------------------------------------------
(* Handlers.  Each takes the widget g and the collaborator's answers and   *)
(* gives the widget as the handler leaves it, with its calls in g.ops.     *)

\* a fresh Session object
NewSession(g) ==
  LET live == {g.session[i] : i \in DOMAIN g.session}
  IN CHOOSE s \in SessionIds \ live : \A t \in SessionIds \ live : s <= t

\* refresh_devices that clears the combo box before it asks for the devices
refresh_devices_clears_first(g0, vis) ==
  LET g == Log(g0, Call("refresh_devices"))
  IN IF ~IsSet(g.session) THEN show_error(g, "Not Connected")
     ELSE LET q == Log([g EXCEPT !.combo_items = <<>>, !.combo_index = 0],
                       Ev("devices.visible", g.session, <<>>,
                          IF vis.res = "ok" THEN Some(vis.devs) ELSE None,
                          vis.res, <<>>))
          IN IF vis.res = "raise" THEN show_error(q, "Device Query Failed")
             ELSE IF vis.devs = <<>>
               THEN set_status(
                      [q EXCEPT !.combo_items = <<Placeholder>>,
                                !.combo_index = 1],
                      Status("Connected, but no devices visible.", 0, <<>>))
               ELSE set_status(
                      [q EXCEPT !.combo_items = vis.devs, !.combo_index = 1],
                      Status("Connected. Found", Len(vis.devs), <<>>))

\* refresh_devices; vis is the answer of session.devices.visible():
\* [res |-> "ok", devs |-> list] or [res |-> "raise", devs |-> <<>>]
refresh_devices(g0, vis) ==
  LET g == Log(g0, Call("refresh_devices"))
  IN IF ~IsSet(g.session) THEN show_error(g, "Not Connected")
     ELSE LET q == Log(g, Ev("devices.visible", g.session, <<>>,
                             IF vis.res = "ok" THEN Some(vis.devs) ELSE None,
                             vis.res, <<>>))
          IN IF vis.res = "raise" THEN show_error(q, "Device Query Failed")
             ELSE IF vis.devs = <<>>
               THEN set_status(
                      [q EXCEPT !.combo_items = <<Placeholder>>,
                                !.combo_index = 1],
                      Status("Connected, but no devices visible.", 0, <<>>))
               ELSE set_status(
                      [q EXCEPT !.combo_items = vis.devs, !.combo_index = 1],
                      Status("Connected. Found", Len(vis.devs), <<>>))

\* connect_to_server that keeps the previous session when Session() raises
connect_to_server_keeps_session(g0, port, sess, vis) ==
  LET g == Log(g0, Call("connect_to_server"))
  IN IF ~PortParses[port] THEN show_error(g, "Bad Port")
     ELSE IF sess = "raise"
       THEN show_error(
              set_status(Log(g, Ev("Session", None, <<>>, None, "raise", <<>>)),
                         Status("Disconnected", 0, <<>>)),
              "Connection Failed")
       ELSE LET s == NewSession(g)
            IN refresh_devices(
                 set_status(
                   [Log(g, Ev("Session", Some(s), <<>>, None, "ok", <<>>))
                      EXCEPT !.session = Some(s)],
                   Status("Connected to LabOne Data Server", 0, <<>>)),
                 vis)

\* connect_to_server; port is the text of port_edit, sess the outcome of
\* Session(host, port), vis the answer to the enumeration that follows
connect_to_server(g0, port, sess, vis) ==
  LET g == Log(g0, Call("connect_to_server"))
  IN IF ~PortParses[port] THEN show_error(g, "Bad Port")
     ELSE IF sess = "raise"
       THEN show_error(
              set_status(
                [Log(g, Ev("Session", None, <<>>, None, "raise", <<>>))
                   EXCEPT !.session = None],
                Status("Disconnected", 0, <<>>)),
              "Connection Failed")
       ELSE LET s == NewSession(g)
            IN refresh_devices(
                 set_status(
                   [Log(g, Ev("Session", Some(s), <<>>, None, "ok", <<>>))
                      EXCEPT !.session = Some(s)],
                   Status("Connected to LabOne Data Server", 0, <<>>)),
                 vis)

\* the writes of apply_minimal_settings, in order, with their values
SettingsWrites(freq, tc, rate) ==
  << <<"devices[]", None>>,
     <<"sigins/0/on", Some(Float(1, 0))>>,
     <<"demods/0/enable", Some(Float(1, 0))>>,
     <<"oscs/0/freq", Some(freq)>>,
     <<"demods/0/timeconstant", Some(tc)>>,
     <<"demods/0/order", Some(Float(4, 0))>>,
     <<"demods/0/rate", Some(rate)>>,
     <<"sigins/0/autorange", Some(Float(1, 0))>> >>

\* the value of one try block: v is what float(text) gave
OrDefault(v, default) == IF v.kind = "ValueError" THEN default ELSE v

\* float(text) with the fallback of the except ValueError branch
FloatOr(text, default) == OrDefault(FloatOf[text], default)

parse_freq(text) == FloatOr(text, Float(1000, 0))

parse_tc(text) == FloatOr(text, Float(1, -2))

parse_rate(text) == FloatOr(text, Float(200, 0))

\* the texts are read once the input and the demodulator are enabled
TextsReadAfter == 3

\* the three text() reads of apply_minimal_settings
TextReads(cfg) ==
  << Ev("freq_edit.text", None, <<>>, None, "ok", cfg.freq),
     Ev("tc_edit.text", None, <<>>, None, "ok", cfg.tc),
     Ev("rate_edit.text", None, <<>>, None, "ok", cfg.rate) >>

\* the calls of apply_minimal_settings: the writes w up to the one that
\* raises, with the three text() reads in their place
settings_calls(g, dev, failAt, w, reads) ==
  LET last == IF failAt = 0 THEN Len(w) ELSE failAt
      evs  == [i \in 1..last |->
                 Ev(w[i][1], g.session, dev, w[i][2],
                    IF i = failAt THEN "raise" ELSE "ok", <<>>)]
      log  == IF last > TextsReadAfter
                THEN SubSeq(evs, 1, TextsReadAfter) \o reads
                       \o SubSeq(evs, TextsReadAfter + 1, last)
                ELSE evs
  IN [g |-> [g EXCEPT !.ops = @ \o log],
      raised |-> failAt \in 1..(Len(w) - 1)]

\* the writes when one try block surrounds the three conversions: f, t and
\* r are what float() gave for the three texts
one_try_writes(f, t, r) ==
  LET okF == f.kind # "ValueError"
      okT == okF /\ t.kind # "ValueError"
      okR == okT /\ r.kind # "ValueError"
  IN SettingsWrites(IF okF THEN f ELSE Float(1000, 0),
                    IF okT THEN t ELSE Float(1, -2),
                    IF okR THEN r ELSE Float(200, 0))

\* apply_minimal_settings with one try block around the three conversions:
\* a malformed text puts its own and the later fields at their defaults
apply_minimal_settings_one_try(g, dev, cfg) ==
  settings_calls(g, dev, cfg.failAt,
                 one_try_writes(FloatOf[cfg.freq], FloatOf[cfg.tc],
                                FloatOf[cfg.rate]),
                 TextReads(cfg))

\* apply_minimal_settings; cfg holds the three texts and failAt, the index
\* of the write that raises (0: none).  The autorange write is the last and
\* its exception is swallowed.
apply_minimal_settings(g, dev, cfg) ==
  settings_calls(g, dev, cfg.failAt,
                 SettingsWrites(parse_freq(cfg.freq), parse_tc(cfg.tc),
                                parse_rate(cfg.rate)),
                 TextReads(cfg))

\* the disconnect_device call of stop_live
disconnect_device(g, disc) ==
  Log(g, Ev("disconnect_device", g.session, Val(g.device_id), None, disc, <<>>))

\* stop_live with the disconnect attempted while the timer still runs
stop_live_disconnect_first(g0, disc) ==
  LET g == Log(g0, Call("stop_live"))
      d == IF IsSet(g.session) /\ IsSet(g.device_id)
             THEN disconnect_device(g, disc)
             ELSE g
      t == Log([d EXCEPT !.timer_active = FALSE],
               Ev("timer.stop", None, <<>>, None, "ok", <<>>))
  IN set_status(
       [t EXCEPT !.streaming = FALSE, !.start_enabled = TRUE,
                 !.stop_enabled = FALSE, !.labels = UnsetLabels],
       Status("Connected (stream stopped)", 0, <<>>))

\* stop_live that leaves the four labels as they are
stop_live_keeps_labels(g0, disc) ==
  LET g == Log(g0, Call("stop_live"))
      t == Log([g EXCEPT !.timer_active = FALSE],
               Ev("timer.stop", None, <<>>, None, "ok", <<>>))
      d == IF IsSet(t.session) /\ IsSet(t.device_id)
             THEN disconnect_device(t, disc)
             ELSE t
  IN set_status(
       [d EXCEPT !.streaming = FALSE, !.start_enabled = TRUE,
                 !.stop_enabled = FALSE],
       Status("Connected (stream stopped)", 0, <<>>))

\* stop_live; disc is the outcome of disconnect_device: "ok" or "raise"
stop_live(g0, disc) ==
  LET g == Log(g0, Call("stop_live"))
      t == Log([g EXCEPT !.timer_active = FALSE],
               Ev("timer.stop", None, <<>>, None, "ok", <<>>))
      d == IF IsSet(t.session) /\ IsSet(t.device_id)
             THEN disconnect_device(t, disc)
             ELSE t
  IN set_status(
       [d EXCEPT !.streaming = FALSE, !.start_enabled = TRUE,
                 !.stop_enabled = FALSE, !.labels = UnsetLabels],
       Status("Connected (stream stopped)", 0, <<>>))

\* the connect_device call of start_live; conn is its outcome
connect_device(g, dev, conn) ==
  Log(g, Ev("connect_device", g.session, dev, None, conn.res, conn.msg))

\* the end of start_live without the two setEnabled calls
begin_streaming_leaves_buttons(g, dev) ==
  set_status(
    Log([g EXCEPT !.streaming = TRUE, !.timer_active = TRUE],
        Ev("timer.start", None, <<>>, None, "ok", <<>>)),
    Status("Reading from", 0, dev))

\* the end of start_live, once the device is connected and configured
begin_streaming(g, dev) ==
  set_status(
    [Log([g EXCEPT !.streaming = TRUE, !.timer_active = TRUE],
         Ev("timer.start", None, <<>>, None, "ok", <<>>))
       EXCEPT !.start_enabled = FALSE, !.stop_enabled = TRUE],
    Status("Reading from", 0, dev))

\* the second try block of start_live and what follows it; a is what
\* apply_minimal_settings gave
configure_and_stream(a, dev) ==
  IF a.raised
    THEN [show_error(a.g, "Start Failed") EXCEPT !.device_id = None]
    ELSE begin_streaming(a.g, dev)

\* the first try block of start_live and what follows it; c is the widget
\* after the connect_device call
connect_and_configure(c, dev, in) ==
  IF in.conn.res = "raise" /\ ~InUse[in.conn.msg]
    THEN [show_error(c, "Start Failed") EXCEPT !.device_id = None]
    ELSE configure_and_stream(apply_minimal_settings(c, dev, in.cfg), dev)

\* start_live from the implicit stop on; g is the widget once the session
\* and the device text dev were accepted
restart_live(g, dev, in) ==
  LET s == IF g.streaming THEN stop_live(g, in.disc) ELSE g
  IN connect_and_configure(
       connect_device([s EXCEPT !.device_id = Some(dev)], dev, in.conn),
       dev, in)

\* the two checks of start_live; dev is the stripped text of the combo box
check_and_start(g, dev, in) ==
  IF ~IsSet(g.session) THEN show_error(g, "Not Connected")
  ELSE IF dev = <<>> \/ StartsWith(dev, <<"(">>)
    THEN show_error(g, "No Device")
  ELSE restart_live(g, dev, in)

\* start_live that stops the running stream before it looks at the session
\* and the selected device
start_live_stops_first(g0, in) ==
  LET g1 == Log(g0, Call("start_live"))
      g  == IF g1.streaming THEN stop_live(g1, in.disc) ELSE g1
  IN check_and_start(g, StrippedText[currentText(g)], in)

\* start_live; in holds disc (the outcome of the implicit stop's
\* disconnect_device), conn (the outcome of connect_device) and cfg
start_live(g0, in) ==
  LET g == Log(g0, Call("start_live"))
  IN check_and_start(g, StrippedText[currentText(g)], in)

\* closeEvent
closeEvent(g0, disc) ==
  LET g == Log(g0, Call("closeEvent"))
      s == IF g.streaming THEN stop_live(g, disc) ELSE g
  IN [Log(s, Ev("event.accept", None, <<>>, None, "ok", <<>>))
        EXCEPT !.window = "closed"]

---------------------------------------------------------------------------
(* Samples.  A value the collaborator returns is a number, a list or tuple *)
(* of values, a dict, or None.  x, y and r are in the unit of the reading, *)
(* phi in milliradians (the phase label shows three decimals).             *)

Num(n) == [t |-> "num", n |-> n, items |-> <<>>, d |-> <<>>]

List(vs) == [t |-> "list", n |-> 0, items |-> vs, d |-> <<>>]

Dict(d) == [t |-> "dict", n |-> 0, items |-> <<>>, d |-> d]

PyNone == [t |-> "None", n |-> 0, items |-> <<>>, d |-> <<>>]

HasKey(v, k) == k \in DOMAIN v.d

\* float(value) of a sample value: only a number converts
to_float(v) ==
  IF v.t = "num" THEN [ok |-> TRUE, v |-> v.n] ELSE [ok |-> FALSE, v |-> 0]

\* safe_extract
safe_extract(v) ==
  IF v.t = "list" /\ Len(v.items) > 0 THEN to_float(v.items[1]) ELSE to_float(v)

\* the four reads of one dict: a key that is present replaces the value so
\* far; 'phi' is read only when 'theta' is absent
extract_keys(v, sofar) ==
  LET get(k, old) == IF HasKey(v, k) THEN safe_extract(v.d[k])
                     ELSE [ok |-> TRUE, v |-> old]
      x   == get("x", sofar.x)
      y   == get("y", sofar.y)
      r   == get("r", sofar.r)
      phi == IF HasKey(v, "theta") THEN safe_extract(v.d["theta"])
             ELSE get("phi", sofar.phi)
  IN [ok |-> sofar.ok /\ x.ok /\ y.ok /\ r.ok /\ phi.ok,
      x |-> x.v, y |-> y.v, r |-> r.v, phi |-> phi.v]

\* math.sqrt on the perfect squares the samples produce
Sqrt(n) == CHOOSE r \in 0..n : r * r = n

\* math.atan2(y, x) in milliradians, tabulated on the sample values
Atan2Table ==
  <<-4, -4>> :> -2356 @@ <<-4, -3>> :> -2214 @@ <<-4, 0>> :> -1571
  @@ <<-4, 3>> :> -927 @@ <<-4, 4>> :> -785 @@ <<-3, -4>> :> -2498
  @@ <<-3, -3>> :> -2356 @@ <<-3, 0>> :> -1571 @@ <<-3, 3>> :> -785
  @@ <<-3, 4>> :> -644 @@ <<0, -4>> :> 3142 @@ <<0, -3>> :> 3142
  @@ <<0, 0>> :> 0 @@ <<0, 3>> :> 0 @@ <<0, 4>> :> 0
  @@ <<3, -4>> :> 2498 @@ <<3, -3>> :> 2356 @@ <<3, 0>> :> 1571
  @@ <<3, 3>> :> 785 @@ <<3, 4>> :> 644 @@ <<4, -4>> :> 2356
  @@ <<4, -3>> :> 2214 @@ <<4, 0>> :> 1571 @@ <<4, 3>> :> 927
  @@ <<4, 4>> :> 785

atan2(y, x) == Atan2Table[<<y, x>>]

\* to_polar that computes r and leaves the phase the source supplied
to_polar_keeps_phi(f) ==
  IF (f.x # 0 \/ f.y # 0) /\ f.r = 0
    THEN [f EXCEPT !.r = Sqrt(f.x * f.x + f.y * f.y)]
    ELSE f

\* r and phi computed from x and y when r is zero
to_polar(f) ==
  IF (f.x # 0 \/ f.y # 0) /\ f.r = 0
    THEN [f EXCEPT !.r = Sqrt(f.x * f.x + f.y * f.y), !.phi = atan2(f.y, f.x)]
    ELSE f

\* the extraction of poll_and_update: ok is FALSE where the code raises
extract(sample) ==
  LET zero   == [ok |-> TRUE, x |-> 0, y |-> 0, r |-> 0, phi |-> 0]
      direct == IF sample.t = "dict" THEN extract_keys(sample, zero) ELSE zero
      nested == IF /\ direct.ok
                   /\ sample.t = "dict"
                   /\ HasKey(sample, "value")
                   /\ sample.d["value"].t = "dict"
                  THEN extract_keys(sample.d["value"], direct)
                  ELSE direct
  IN IF nested.ok THEN to_polar(nested) ELSE nested

\* read_sample that goes on to the next method after any exception
RECURSIVE read_sample_after_any_error(_, _, _, _)
read_sample_after_any_error(g, have, rd, i) ==
  LET m   == ReadMethods[i]
      res == IF m \notin have THEN "AttributeError"
             ELSE IF rd.res = "empty" /\ m # "get" THEN "ok" ELSE rd.res
      q   == Log(g, Ev(m, g.session, Val(g.device_id),
                       IF res = "ok" THEN Some(rd.sample) ELSE None,
                       res, <<>>))
  IN IF res \in {"AttributeError", "raise"} /\ i < Len(ReadMethods)
       THEN read_sample_after_any_error(q, have, rd, i + 1)
       ELSE [g |-> q,
             res |-> IF res = "AttributeError" THEN "raise" ELSE res,
             sample |-> rd.sample]

\* the read of poll_and_update: the methods are probed in order, the next
\* one only after an AttributeError.  rd is the answer of the first method
\* the collaborator has: res "ok" with a sample, "raise", or "empty": from
\* get a falsy result or one without the sample path, from getSample and
\* getAsEvent the sample None.
RECURSIVE read_sample(_, _, _, _)
read_sample(g, have, rd, i) ==
  LET m == ReadMethods[i]
  IN IF m \notin have
       THEN LET q == Log(g, Ev(m, g.session, Val(g.device_id), None,
                               "AttributeError", <<>>))
            IN IF i < Len(ReadMethods) THEN read_sample(q, have, rd, i + 1)
               ELSE [g |-> q, res |-> "raise", sample |-> PyNone]
       ELSE LET res == IF rd.res = "empty" /\ m # "get" THEN "ok" ELSE rd.res
            IN [g |-> Log(g, Ev(m, g.session, Val(g.device_id),
                                IF res = "ok" THEN Some(rd.sample) ELSE None,
                                res, <<>>)),
                res |-> res, sample |-> rd.sample]

\* the labels of one reading; f is what the extraction gave
show_reading(g, f) ==
  IF ~f.ok THEN set_status(g, Status("Read error", 0, <<>>))
  ELSE [g EXCEPT !.labels = [x |-> Some(f.x), y |-> Some(f.y),
                             r |-> Some(f.r), phi |-> Some(f.phi)]]

\* a tick whose failure stops the timer
after_read_stops_on_error(got) ==
  IF got.res = "empty"
    THEN set_status(got.g,
           Status("Could not read sample - unsupported API version", 0, <<>>))
  ELSE IF got.res = "raise" \/ ~extract(got.sample).ok
    THEN set_status([got.g EXCEPT !.timer_active = FALSE],
                    Status("Read error", 0, <<>>))
  ELSE show_reading(got.g, extract(got.sample))

\* poll_and_update after the read; got is what read_sample gave
after_read(got) ==
  IF got.res = "empty"
    THEN set_status(got.g,
           Status("Could not read sample - unsupported API version", 0, <<>>))
  ELSE IF got.res = "raise"
    THEN set_status(got.g, Status("Read error", 0, <<>>))
  ELSE show_reading(got.g, extract(got.sample))

\* poll_and_update
poll_and_update(g0, have, rd) ==
  LET g == Log(g0, Call("poll_and_update"))
  IN IF ~(IsSet(g.session) /\ IsSet(g.device_id)) THEN g
     ELSE after_read(read_sample(g, have, rd, 1))

---------------------------------------------------------------------------
(* Answers of the collaborator *)

VisAnswers ==
  {[res |-> "raise", devs |-> <<>>]}
    \cup {[res |-> "ok", devs |-> l] : l \in VisibleLists}

Outcomes == {"ok", "raise"}

ConnOk == [res |-> "ok", msg |-> <<>>]

ConnRaises(msgs) == {[res |-> "raise", msg |-> m] : m \in msgs}

DefaultFreq == <<"1","0","0","0">>

DefaultTc == <<"0",".","0","1">>

DefaultRate == <<"2","0","0">>

\* the configurations a start is tried with: the texts only count when
\* they are read
Cfgs(fails, freqs, tcs, rates) ==
  {c \in [failAt : fails, freq : freqs, tc : tcs, rate : rates] :
     c.failAt \in 1..TextsReadAfter =>
       c.freq = DefaultFreq /\ c.tc = DefaultTc /\ c.rate = DefaultRate}

\* samples of the life-cycle specification
SampleFull ==
  Dict(("x" :> Num(3)) @@ ("y" :> Num(4)) @@ ("r" :> Num(5))
         @@ ("theta" :> Num(927)))

SampleXY == Dict(("x" :> List(<<Num(-3)>>)) @@ ("y" :> List(<<Num(4)>>)))

SampleBad == Dict(("x" :> Num(3)) @@ ("y" :> PyNone))

SampleScalar == Num(7)

ReadAnswers(samples) ==
  {[res |-> "raise", sample |-> PyNone], [res |-> "empty", sample |-> PyNone]}
    \cup {[res |-> "ok", sample |-> s] : s \in samples}

---------------------------------------------------------------------------
(* Actions: one per handler, and the user's selection in the combo box *)

\* the enumeration is asked only once Session(host, port) has succeeded
ConnectToServer ==
  /\ window = "open"
  /\ \E port \in PortTexts, sess \in Outcomes :
       \E vis \in IF PortParses[port] /\ sess = "ok" THEN VisAnswers
                   ELSE {[res |-> "raise", devs |-> <<>>]} :
         Becomes(connect_to_server(Self, port, sess, vis))

RefreshDevices ==
  /\ window = "open"
  /\ \E vis \in VisAnswers : Becomes(refresh_devices(Self, vis))

SelectDevice ==
  /\ window = "open"
  /\ \E i \in 1..Len(combo_items) :
       /\ i # combo_index
       /\ Becomes([Self EXCEPT !.combo_index = i])

\* the outcomes of the disconnect_device call of a stop_live in this state
DiscOutcomes(stops) ==
  IF stops /\ IsSet(session) /\ IsSet(device_id) THEN Outcomes ELSE {"ok"}

StartLive(conns, cfgs) ==
  /\ window = "open"
  /\ \E disc \in DiscOutcomes(streaming), conn \in conns, cfg \in cfgs :
       Becomes(start_live(Self, [disc |-> disc, conn |-> conn, cfg |-> cfg]))

StopLive ==
  /\ window = "open"
  /\ \E disc \in DiscOutcomes(TRUE) : Becomes(stop_live(Self, disc))

Tick(answers) ==
  /\ window = "open"
  /\ timer_active
  /\ \E rd \in answers : Becomes(poll_and_update(Self, api, rd))

CloseEvent ==
  /\ window = "open"
  /\ \E disc \in DiscOutcomes(streaming) : Becomes(closeEvent(Self, disc))

---------------------------------------------------------------------------
(* The life cycle: every handler, with one in-use and one other message of *)
(* connect_device and the default texts in the settings fields             *)

LifeConns ==
  {ConnOk} \cup ConnRaises({<<"D","e","v","i","c","e"," ","I","n"," ","U","s","e">>,
                            <<"t","i","m","e","o","u","t">>})

LifeCfgs == Cfgs({0, 1, 4, 8}, {DefaultFreq}, {DefaultTc}, {DefaultRate})

LifeAnswers == ReadAnswers({SampleFull, SampleXY, SampleBad, SampleScalar})

StartLiveLife == StartLive(LifeConns, LifeCfgs)

TickLife == Tick(LifeAnswers)

Next ==
  \/ ConnectToServer
  \/ RefreshDevices
  \/ SelectDevice
  \/ StartLiveLife
  \/ StopLive
  \/ TickLife
  \/ CloseEvent

Spec == Init /\ [][Next]_vars

---------------------------------------------------------------------------
(* Starting and stopping with every message of connect_device *)

StartConns == {ConnOk} \cup ConnRaises(ConnectMessages)

StartCfgs == Cfgs({0, 1, 7}, {DefaultFreq}, {DefaultTc}, {DefaultRate})

StartLiveMessages == StartLive(StartConns, StartCfgs)

NextStart ==
  \/ ConnectToServer
  \/ SelectDevice
  \/ StartLiveMessages
  \/ StopLive

\* no tick is taken here, so one collaborator version is enough
InitNewest == Init /\ api = {ReadMethods[i] : i \in DOMAIN ReadMethods}

SpecStart == InitNewest /\ [][NextStart]_vars

---------------------------------------------------------------------------
(* Starting and stopping with every text in the three settings fields and  *)
(* every write failing in turn; connect_device succeeds                    *)

SettingsCfgs == Cfgs(0..8, FreqTexts, TcTexts, RateTexts)

StartLiveSettings == StartLive({ConnOk}, SettingsCfgs)

NextSettings ==
  \/ ConnectToServer
  \/ StartLiveSettings
  \/ StopLive

SpecSettings == InitNewest /\ [][NextSettings]_vars

---------------------------------------------------------------------------
(* Ticking over the shapes of a sample: mappings with and without the      *)
(* fields, with and without a nested 'value', and values that are no       *)
(* mapping; the device is connected and configured without an exception    *)

\* a key the mapping does not have
Absent == [t |-> "absent", n |-> 0, items |-> <<>>, d |-> <<>>]

\* the mappings with, for each key k of ch, no entry or one of ch[k]
Mappings(ch) ==
  LET all == UNION {ch[k] : k \in DOMAIN ch} \cup {Absent}
      fs  == {f \in [DOMAIN ch -> all] :
                \A k \in DOMAIN ch : f[k] \in ch[k] \cup {Absent}}
  IN {[k \in {j \in DOMAIN f : f[j] # Absent} |-> f[k]] : f \in fs}

\* mappings with the fields at the top
DirectSamples ==
  {Dict(m) : m \in Mappings(("x" :> {Num(-3), Num(0), Num(3)})
                            @@ ("y" :> {Num(-4), Num(4)})
                            @@ ("r" :> {Num(0), Num(7)})
                            @@ ("theta" :> {Num(100)}))}

\* what a mapping has under 'value'
NestedValues ==
  {Dict(m) : m \in Mappings(("x" :> {Num(-3)}) @@ ("r" :> {Num(5)})
                            @@ ("theta" :> {Num(300)}))}
    \cup {Num(7)}

\* mappings with fields at the top and a nested 'value'
NestedSamples ==
  {Dict(m @@ ("value" :> v)) :
     m \in Mappings(("x" :> {Num(3)}) @@ ("r" :> {Num(7)})
                    @@ ("theta" :> {Num(100)})),
     v \in NestedValues}

\* values that are no mapping, mappings with 'phi', and mappings float()
\* cannot convert
OtherSamples ==
  {Num(7), List(<<Num(7)>>), PyNone,
   Dict(("r" :> Num(7)) @@ ("phi" :> Num(200))),
   Dict(("r" :> Num(7)) @@ ("theta" :> Num(100)) @@ ("phi" :> Num(200))),
   Dict(("x" :> Num(3)) @@ ("y" :> Num(4)) @@ ("phi" :> Num(200))),
   Dict(("r" :> Num(7)) @@ ("theta" :> Num(100))
          @@ ("value" :> Dict("phi" :> Num(400)))),
   Dict(("x" :> List(<<Num(3), Num(4)>>)) @@ ("y" :> List(<<Num(4)>>))),
   Dict(("x" :> Num(3)) @@ ("y" :> PyNone)),
   Dict(("x" :> List(<<>>)))}

ShapeAnswers == ReadAnswers(DirectSamples \cup NestedSamples \cup OtherSamples)

StartLiveDefault ==
  StartLive({ConnOk}, Cfgs({0}, {DefaultFreq}, {DefaultTc}, {DefaultRate}))

TickShapes == Tick(ShapeAnswers)

NextShapes ==
  \/ ConnectToServer
  \/ StartLiveDefault
  \/ TickShapes

SpecShapes == InitNewest /\ [][NextShapes]_vars

---------------------------------------------------------------------------
(* Reading the log of a handler *)

\* the handler a log belongs to
HandlerOf(o) == IF o = <<>> THEN "none" ELSE o[1].op

\* where the calls named op are in a log
Where(o, op) == {i \in DOMAIN o : o[i].op = op}

Has(o, op) == Where(o, op) # {}

\* no call of the log raised
NoRaise(o) == \A i \in DOMAIN o : o[i].res \notin {"raise", "AttributeError"}

\* the handler showed exactly this error and did nothing else
OnlyError(o, handler, title) ==
  o = <<Call(handler), Ev("show_error", None, <<>>, None, title, <<>>)>>

\* a device text start_live accepts
ValidDeviceText(t) == Strip(t) # <<>> /\ Head(Strip(t)) # "("

---------------------------------------------------------------------------
(* C1..C3: the stream state *)

\* C1: in every reachable state, streaming is true only if the poll timer
\* is active and a session and a device_id are both set.
C1_StreamingImpliesFeedOpen ==
  streaming => timer_active /\ IsSet(session) /\ IsSet(device_id)

\* C2: start_live called while streaming, with a valid device selected and
\* no collaborator call raising, halts the timer, attempts disconnect_device
\* for the old device_id and only then calls connect_device, once, for the
\* selected device; it ends streaming, with the timer active and device_id
\* the selected device.
C2_RestartStopsThenStarts ==
  [][(/\ streaming
      /\ HandlerOf(ops') = "start_live"
      /\ ValidDeviceText(currentText(Self))
      /\ NoRaise(ops'))
     => (\E i, j, k \in DOMAIN ops' :
           /\ i < j /\ j < k
           /\ ops'[i].op = "timer.stop"
           /\ ops'[j].op = "disconnect_device"
           /\ ops'[j].dev = Val(device_id)
           /\ ops'[k].op = "connect_device"
           /\ ops'[k].dev = Strip(currentText(Self))
           /\ Where(ops', "connect_device") = {k}
           /\ streaming' /\ timer_active'
           /\ device_id' = Some(Strip(currentText(Self))))]_vars

\* C3: every stop_live halts the timer first, attempts disconnect_device
\* only with the timer halted, and, whether the disconnect succeeds, raises
\* or is skipped, a stop (from the Stop button or from closing the window)
\* ends with streaming false and the timer inactive.
C3_StopHaltsTimerFirst ==
  /\ \A i \in Where(ops, "stop_live") :
       i < Len(ops) /\ ops[i + 1].op = "timer.stop"
  /\ \A j \in Where(ops, "disconnect_device") :
       \E i \in Where(ops, "timer.stop") :
         i < j /\ \A k \in Where(ops, "timer.start") : k < i \/ k > j
  /\ (HandlerOf(ops) \in {"stop_live", "closeEvent"})
       => ~streaming /\ ~timer_active

\* a stop whose disconnect_device raised
C3_Witness ==
  /\ HandlerOf(ops) = "stop_live"
  /\ \E j \in Where(ops, "disconnect_device") : ops[j].res = "raise"
  /\ ~streaming /\ ~timer_active

---------------------------------------------------------------------------
(* C4..C6: starting *)

\* the phrases of the in-use heuristic
InUsePhrases ==
  { <<"i","n"," ","u","s","e">>,
    <<"a","l","r","e","a","d","y"," ","c","o","n","n","e","c","t","e","d">>,
    <<"3","2","7","8","9">>,
    <<"d","i","f","f","e","r","e","n","t"," ","s","e","r","v","e","r">> }

MatchesInUse(msg) == \E p \in InUsePhrases : Contains(p, Lower(msg))

\* the nodes apply_minimal_settings touches
SettingsNodes ==
  {"devices[]", "sigins/0/on", "demods/0/enable", "oscs/0/freq",
   "demods/0/timeconstant", "demods/0/order", "demods/0/rate",
   "sigins/0/autorange"}

\* the log from its k-th call on
After(o, k) == SubSeq(o, k + 1, Len(o))

AppliesSettings(o) == \E i \in DOMAIN o : o[i].op \in SettingsNodes

\* C4: when connect_device raises during start_live, the start goes on to
\* apply the settings exactly when the message matches the in-use heuristic,
\* and then ends streaming unless a settings write raises; with any other
\* message it applies nothing and ends with streaming false, the timer
\* inactive and device_id cleared.
C4_InUseTolerated ==
  \A k \in Where(ops, "connect_device") :
    ops[k].res = "raise" =>
      /\ AppliesSettings(After(ops, k)) <=> MatchesInUse(ops[k].msg)
      /\ (MatchesInUse(ops[k].msg) /\ NoRaise(After(ops, k)))
           => streaming /\ timer_active /\ device_id = Some(ops[k].dev)
      /\ ~MatchesInUse(ops[k].msg)
           => ~streaming /\ ~timer_active /\ device_id = None

\* a start that streams although connect_device raised "... In Use"
C4_Witness ==
  /\ streaming
  /\ \E k \in Where(ops, "connect_device") :
       ops[k].res = "raise" /\ MatchesInUse(ops[k].msg)

\* C5, as claimed: whenever the selected device text is empty or the
\* placeholder, start_live shows the no-valid-device error, makes no call on
\* the collaborator and leaves session, device_id, streaming and the timer
\* unchanged.
C5_NoDeviceAlwaysReported ==
  [][(HandlerOf(ops') = "start_live" /\ ~ValidDeviceText(currentText(Self)))
     => /\ OnlyError(ops', "start_live", "No Device")
        /\ UNCHANGED <<session, device_id, streaming, timer_active>>]_vars

\* C5, amended: whenever the selected device text is empty or the
\* placeholder, start_live shows one error and nothing else, the
\* no-valid-device error if a session is set and the not-connected error if
\* none is; it makes no call on the collaborator and leaves session,
\* device_id, streaming and the timer unchanged.
C5_NoDeviceRejected ==
  [][(HandlerOf(ops') = "start_live" /\ ~ValidDeviceText(currentText(Self)))
     => /\ OnlyError(ops', "start_live",
                     IF IsSet(session) THEN "No Device" ELSE "Not Connected")
        /\ UNCHANGED <<session, device_id, streaming, timer_active>>]_vars

\* a start rejected for the placeholder while a stream is running
C5_Witness ==
  /\ OnlyError(ops, "start_live", "No Device")
  /\ currentText(Self) = Placeholder
  /\ streaming /\ timer_active

\* C6: with a collaborator that has no read method, start_live does not end
\* streaming: it ends with streaming false and the timer inactive and shows
\* an error.
C6_NoReadMethodAbortsStart ==
  (api = {} /\ HandlerOf(ops) = "start_live")
    => ~streaming /\ ~timer_active /\ Has(ops, "show_error")

---------------------------------------------------------------------------
(* C7..C9: ticks, closing, connecting *)

\* the read calls of a log
Reads(o) == {i \in DOMAIN o : \E m \in DOMAIN ReadMethods : o[i].op = ReadMethods[m]}

\* a tick that read and got no sample, or one whose extraction raises
TickFailed(o) ==
  /\ HandlerOf(o) = "poll_and_update"
  /\ Reads(o) # {}
  /\ \E i \in Reads(o) :
       /\ \A j \in Reads(o) : j <= i
       /\ o[i].res = "ok" => ~extract(Val(o[i].val)).ok

\* C7: a tick whose read raises, finds no sample or whose extraction raises
\* changes nothing but the status text: streaming, the timer, session,
\* device_id and the four labels stay as they were, and the timer goes on.
C7_TickFailureIsTransient ==
  [][TickFailed(ops')
     => /\ UNCHANGED <<streaming, timer_active, session, device_id, labels,
                       start_enabled, stop_enabled, combo_items, combo_index,
                       window>>
        /\ timer_active'
        /\ Has(ops', "set_status")]_vars

\* a failed tick that left the values of an earlier tick on display
C7_Witness ==
  /\ TickFailed(ops)
  /\ \E i \in Reads(ops) : ops[i].res = "ok"
  /\ labels # UnsetLabels
  /\ streaming /\ timer_active

\* C8: closeEvent while streaming halts the timer, then attempts
\* disconnect_device, ends with streaming false and only then accepts the
\* event; closeEvent while not streaming makes no collaborator call; the
\* event is accepted in every case.
C8_CloseForcesStop ==
  [][HandlerOf(ops') = "closeEvent"
     => /\ ops'[Len(ops')].op = "event.accept"
        /\ window' = "closed"
        /\ IF streaming
             THEN /\ \E i, j \in DOMAIN ops' :
                       /\ i < j /\ j < Len(ops')
                       /\ ops'[i].op = "timer.stop"
                       /\ ops'[j].op = "disconnect_device"
                  /\ ~streaming' /\ ~timer_active'
             ELSE ops' = <<Call("closeEvent"),
                           Ev("event.accept", None, <<>>, None, "ok", <<>>)>>]_vars

\* C9: when Session(host, port) raises, session is None afterwards; while
\* session is None every refresh_devices and start_live only shows the
\* not-connected error; and session leaves None only by a Session() call
\* that succeeds.
C9_FailedConnectRetainsNothing ==
  [][/\ (\E i \in Where(ops', "Session") : ops'[i].res = "raise")
          => session' = None
     /\ (session = None /\ HandlerOf(ops') \in {"refresh_devices", "start_live"})
          => OnlyError(ops', HandlerOf(ops'), "Not Connected") /\ session' = None
     /\ (session = None /\ session' # None)
          => \E i \in Where(ops', "Session") : ops'[i].res = "ok"]_vars

\* a start rejected after a connect failed where a session had existed
C9_Witness ==
  /\ OnlyError(ops, "start_live", "Not Connected")
  /\ session = None
  /\ combo_items # <<>>

---------------------------------------------------------------------------
(* C10: the settings *)

\* the value a field must be written with
FieldValue(text, default) ==
  IF ParseFloat(text).kind = "ValueError" THEN default ELSE ParseFloat(text)

WellFormed(text) == ParseFloat(text).kind # "ValueError"

\* C10: each of the frequency, time-constant and rate nodes is written with
\* the parsed value of its own field, or with that field's default (1000,
\* 0.01, 200) if the text is malformed; the order is written as 4; and
\* unless a write raises, all four writes are made, in this order.
C10_PerFieldFallback ==
  \A i \in Where(ops, "freq_edit.text") :
    LET freq == FieldValue(ops[i].msg, Float(1000, 0))
        tc   == FieldValue(ops[i + 1].msg, Float(1, -2))
        rate == FieldValue(ops[i + 2].msg, Float(200, 0))
        w    == After(ops, i + 2)
    IN /\ ops[i + 1].op = "tc_edit.text" /\ ops[i + 2].op = "rate_edit.text"
       /\ \A j \in DOMAIN w :
            /\ w[j].op = "oscs/0/freq" => w[j].val = Some(freq)
            /\ w[j].op = "demods/0/timeconstant" => w[j].val = Some(tc)
            /\ w[j].op = "demods/0/order" => w[j].val = Some(Float(4, 0))
            /\ w[j].op = "demods/0/rate" => w[j].val = Some(rate)
       /\ (\A j \in 1..4 : j \in DOMAIN w => w[j].res = "ok")
            => /\ Len(w) >= 4
               /\ w[1].op = "oscs/0/freq"
               /\ w[2].op = "demods/0/timeconstant"
               /\ w[3].op = "demods/0/order"
               /\ w[4].op = "demods/0/rate"

\* a malformed frequency beside a well-formed time constant and rate, none
\* of them the default text, with all the writes made
C10_Witness ==
  \E i \in Where(ops, "freq_edit.text") :
    /\ ~WellFormed(ops[i].msg)
    /\ WellFormed(ops[i + 1].msg) /\ ops[i + 1].msg # DefaultTc
    /\ WellFormed(ops[i + 2].msg) /\ ops[i + 2].msg # DefaultRate
    /\ Has(ops, "demods/0/rate")
    /\ streaming


---------------------------------------------------------------------------
(* C11, C12: the display and the device list *)

\* C11: a stop_live leaves the four labels at the unset placeholder; they
\* are at the placeholder whenever streaming is false; they change only by
\* a tick, and a tick is taken only while streaming is true.
C11_StopFreezesDisplay ==
  [][/\ HandlerOf(ops') = "stop_live" => labels' = UnsetLabels
     /\ ~streaming' => labels' = UnsetLabels
     /\ HandlerOf(ops') = "poll_and_update" => streaming /\ streaming'
     /\ labels' # labels
          => \/ HandlerOf(ops') = "poll_and_update"
             \/ Has(ops', "stop_live") /\ labels' = UnsetLabels]_vars

\* a stop, with its disconnect made, that left the placeholder on display
C11_Witness ==
  /\ HandlerOf(ops) = "stop_live"
  /\ Has(ops, "disconnect_device")
  /\ labels = UnsetLabels
  /\ ~streaming /\ ~timer_active
  /\ IsSet(session) /\ IsSet(device_id)


\* the entries of a list, as a set
Entries(l) == {l[i] : i \in DOMAIN l}

\* C12: after an enumeration that succeeds with no device the combo box holds
\* the placeholder and nothing else; after one that succeeds with n > 0
\* devices it holds those n ids, in order, and no placeholder; after one that
\* raises it holds what it held before.
C12_DeviceListFollowsEnumeration ==
  [][\A i \in Where(ops', "devices.visible") :
       IF ops'[i].res = "ok"
         THEN IF Val(ops'[i].val) = <<>>
                THEN combo_items' = <<Placeholder>>
                ELSE /\ combo_items' = Val(ops'[i].val)
                     /\ Placeholder \notin Entries(combo_items')
         ELSE combo_items' = combo_items /\ combo_index' = combo_index]_vars

\* an empty enumeration that replaced a list of devices by the placeholder
C12_Witness ==
  /\ \E i \in Where(ops, "devices.visible") :
       ops[i].res = "ok" /\ Val(ops[i].val) = <<>>
  /\ combo_items = <<Placeholder>>
  /\ IsSet(device_id)


---------------------------------------------------------------------------
(* C13, C14: what a tick shows of a sample *)

\* the samples a tick read and put on display
Displayed(o) ==
  IF HandlerOf(o) = "poll_and_update" /\ ~Has(o, "set_status")
    THEN {Val(o[i].val) : i \in {j \in Reads(o) : o[j].res = "ok"}}
    ELSE {}

\* what a value has under key k
Field(v, k) == IF v.t = "dict" /\ HasKey(v, k) THEN v.d[k] ELSE Absent

\* the number of the first value that is there, 0 if none is
FirstPresent(vs) ==
  LET there == {i \in DOMAIN vs : vs[i] # Absent}
  IN IF there = {} THEN 0
     ELSE safe_extract(vs[CHOOSE i \in there : \A j \in there : i <= j]).v

\* the four fields with the field at the top before the one under 'value'
DirectFirst(s) ==
  LET v == Field(s, "value")
  IN [ok  |-> TRUE,
      x   |-> FirstPresent(<<Field(s, "x"), Field(v, "x")>>),
      y   |-> FirstPresent(<<Field(s, "y"), Field(v, "y")>>),
      r   |-> FirstPresent(<<Field(s, "r"), Field(v, "r")>>),
      phi |-> FirstPresent(<<Field(s, "theta"), Field(s, "phi"),
                             Field(v, "theta"), Field(v, "phi")>>)]

LabelsOf(f) ==
  [x |-> Some(f.x), y |-> Some(f.y), r |-> Some(f.r), phi |-> Some(f.phi)]

\* C13: a tick shows, for each of x, y, r and phi, the field at the top of
\* the sample when it is there, else the field of the nested 'value'
\* mapping, else 0; a sample that is no mapping shows as 0 in all four.
C13_DirectFieldsFirst ==
  \A s \in Displayed(ops) : labels = LabelsOf(to_polar(DirectFirst(s)))

\* the phase of (x, y) in milliradians lies in the quadrant of (x, y), on
\* the axis where one of them is 0, and is that of the 3-4-5 triangle
PhaseOf(phi, x, y) ==
  LET abs == IF phi < 0 THEN -phi ELSE phi
  IN /\ y > 0 => phi > 0 /\ phi < 3142
     /\ y < 0 => phi < 0 /\ phi > -3142
     /\ y = 0 => phi = (IF x < 0 THEN 3142 ELSE 0)
     /\ x > 0 => abs < 1571
     /\ x < 0 => abs > 1571
     /\ (x = 0 /\ y # 0) => abs = 1571
     /\ (x * x = 9 /\ y * y = 16) => abs = (IF x > 0 THEN 927 ELSE 2214)

\* C14: for a sample with the fields at the top, no nested 'value', and
\* x or y nonzero: with r absent or 0 the tick shows the r >= 0 with
\* r*r = x*x + y*y and the phase of (x, y), whatever phase the sample
\* supplies; with r nonzero it shows the r and the phase of the sample.
C14_PolarDerivation ==
  \A s \in Displayed(ops) :
    (s.t = "dict" /\ ~HasKey(s, "value")) =>
      LET f == DirectFirst(s)
          r == Val(labels.r)
      IN /\ labels.x = Some(f.x) /\ labels.y = Some(f.y)
         /\ IF (f.x # 0 \/ f.y # 0) /\ f.r = 0
              THEN /\ r >= 0 /\ r * r = f.x * f.x + f.y * f.y
                   /\ PhaseOf(Val(labels.phi), f.x, f.y)
              ELSE labels.r = Some(f.r) /\ labels.phi = Some(f.phi)

\* x = 3 and y = 4 with a zero r and a phase of 0.1 shown as r = 5 and
\* phi = 0.927
C14_Witness ==
  /\ Dict(("x" :> Num(3)) @@ ("y" :> Num(4)) @@ ("r" :> Num(0))
           @@ ("theta" :> Num(100))) \in Displayed(ops)
  /\ labels = [x |-> Some(3), y |-> Some(4), r |-> Some(5), phi |-> Some(927)]


---------------------------------------------------------------------------
(* C15: the read methods *)

\* the read calls of a log, in the order they were made
ReadOps(o) == SelectSeq(o, LAMBDA e : \E m \in DOMAIN ReadMethods : e.op = ReadMethods[m])

\* the methods of a log that the collaborator has: those that answered or
\* raised something other than AttributeError
Answering(o) ==
  {ReadOps(o)[k].op : k \in {j \in DOMAIN ReadOps(o) :
                               ReadOps(o)[j].res # "AttributeError"}}

\* C15: a tick tries getSample, getAsEvent and get in this order, the next
\* one only after the one before was missing; the method that answers or
\* raises is the first one the collaborator has, no method is tried after it,
\* a raise is reported as a read error; and two ticks in a row are answered
\* by the same method.
C15_ReadMethodOrder ==
  [][/\ HandlerOf(ops') = "poll_and_update" =>
          LET rs == ReadOps(ops')
          IN /\ Len(rs) <= Len(ReadMethods)
             /\ \A k \in DOMAIN rs :
                  /\ rs[k].op = ReadMethods[k]
                  /\ k < Len(rs) => rs[k].res = "AttributeError"
                  /\ rs[k].res = "AttributeError" <=> rs[k].op \notin api
                  /\ rs[k].res = "raise" => status'.text = "Read error"
             /\ (rs # <<>> /\ api # {}) => rs[Len(rs)].op \in api
     /\ (Answering(ops) # {} /\ Answering(ops') # {})
          => Answering(ops') = Answering(ops)]_vars

\* a tick answered by get after getSample and getAsEvent were missing
C15_Witness ==
  /\ HandlerOf(ops) = "poll_and_update"
  /\ Len(ReadOps(ops)) = 3
  /\ ReadOps(ops)[1].res = "AttributeError"
  /\ ReadOps(ops)[2].res = "AttributeError"
  /\ ReadOps(ops)[3].res = "ok"
  /\ labels # UnsetLabels


---------------------------------------------------------------------------
(* C16..C20: starting and stopping over and over *)

\* C16: with a session set and streaming false, a start_live with a valid
\* device and no collaborator call raising ends streaming with the timer
\* active; with streaming true, a stop_live ends in the stopped state of an
\* open connection: a session set, streaming false, the timer inactive.
C16_StartStopNeverStuck ==
  [][/\ (/\ IsSet(session) /\ ~streaming
         /\ HandlerOf(ops') = "start_live"
         /\ ValidDeviceText(currentText(Self))
         /\ NoRaise(ops'))
          => /\ streaming' /\ timer_active' /\ session' = session
             /\ device_id' = Some(Strip(currentText(Self)))
     /\ (streaming /\ HandlerOf(ops') = "stop_live")
          => /\ IsSet(session') /\ ~streaming' /\ ~timer_active'
             /\ status'.text = "Connected (stream stopped)"]_vars


\* the settings writes of a log that abort the start when they raise
AbortingWrites(o) ==
  {i \in DOMAIN o : /\ o[i].op \in SettingsNodes \ {"sigins/0/autorange"}
                     /\ o[i].res = "raise"}

\* C17: a start_live aborted by a settings write that raises ends with
\* streaming false, the timer inactive, device_id cleared, Start enabled
\* and Stop disabled, and with a disconnect_device call, after the write
\* that raised, for the device its connect_device call had connected.
C17_AbortedStartReleasesDevice ==
  (HandlerOf(ops) = "start_live" /\ AbortingWrites(ops) # {}) =>
    /\ ~streaming /\ ~timer_active /\ device_id = None
    /\ start_enabled /\ ~stop_enabled
    /\ \A k \in Where(ops, "connect_device") :
         ops[k].res = "ok" =>
           \E j \in Where(ops, "disconnect_device") :
             j > k /\ ops[j].dev = ops[k].dev /\ ops[j].sess = ops[k].sess


\* the connect_device calls of a log with this result
Connects(o, res) == {k \in Where(o, "connect_device") : o[k].res = res}

\* the log has a disconnect_device call, after its k-th call, for this
\* device on this session
Releases(o, k, sess, dev) ==
  \E j \in Where(o, "disconnect_device") :
    j > k /\ o[j].dev = dev /\ o[j].sess = sess

\* C18: a device that connect_device connected is released by a
\* disconnect_device call on the same session later in the same handler, or
\* the handler ends streaming on that session and device and the stop, close
\* or restart that follows makes that call before any connect_device; and a
\* stop, close or restart that follows a start whose connect_device raised
\* makes no disconnect_device call for that device.
C18_ConnectDisconnectPaired ==
  [][/\ \A k \in Connects(ops', "ok") :
          \/ Releases(ops', k, ops'[k].sess, ops'[k].dev)
          \/ /\ streaming'
             /\ session' = ops'[k].sess
             /\ device_id' = Some(ops'[k].dev)
     /\ (HandlerOf(ops) = "start_live" /\ streaming /\ Has(ops', "stop_live"))
          => /\ \A k \in Connects(ops, "ok") :
                  /\ Releases(ops', 0, ops[k].sess, ops[k].dev)
                  /\ \A c \in Where(ops', "connect_device") :
                       \E j \in Where(ops', "disconnect_device") : j < c
             /\ \A k \in Connects(ops, "raise") :
                  ~Releases(ops', 0, ops[k].sess, ops[k].dev)]_vars


\* the calls of a log that go through a session to the device: the reads
\* and the disconnect_device calls
DeviceCalls(o) == Reads(o) \cup Where(o, "disconnect_device")

\* C19: start_live connects the device on the session it leaves set; while
\* streaming is true the session stays that object, whatever handler runs;
\* every tick makes its read, and every stop, close or restart its
\* disconnect_device, through that session.
C19_OneSessionPerStream ==
  [][/\ \A k \in Where(ops', "connect_device") : ops'[k].sess = session'
     /\ streaming =>
          /\ streaming' => session' = session
          /\ HandlerOf(ops') = "poll_and_update" => Reads(ops') # {}
          /\ Has(ops', "stop_live") => Has(ops', "disconnect_device")
          /\ \A i \in DeviceCalls(ops') :
               IsSet(session) /\ ops'[i].sess = session]_vars


\* C20: in every reachable state the Start button is enabled exactly when
\* streaming is false and the Stop button exactly when streaming is true.
C20_ButtonsFollowStreaming ==
  /\ start_enabled <=> ~streaming
  /\ stop_enabled <=> streaming

\* a restart whose implicit stop put the buttons back before the new start
\* was aborted
C20_Witness ==
  /\ HandlerOf(ops) = "start_live"
  /\ Has(ops, "stop_live")
  /\ \E i \in Where(ops, "show_error") : ops[i].res = "Start Failed"
  /\ ~streaming /\ start_enabled /\ ~stop_enabled

=============================================================================
